---- MODULE Spec2Model ----
(***************************************************************************)
(* Request building, response normalisation, error classification and the *)
(* streaming relay of BedrockGuardrailClient (bedrock_example.py) and      *)
(* MistralBedrockClient (mistral_example.py).                              *)
(*                                                                         *)
(* Python values are modelled as follows.  An Optional[str] is a string,   *)
(* with None the reserved string below.  Text whose content is inspected   *)
(* (error messages) is a sequence of one-character strings; a literal that *)
(* is only copied is a one-element sequence holding the literal.  Parsed   *)
(* JSON is a tagged record (JNull, JStr, JList, JObj).                     *)
(***************************************************************************)
EXTENDS Integers, Sequences, FiniteSets, TLC

\* ------------------------------------------------------------------ bounds
MaxWords == 2        \* words in an error message of the remote service
MaxEvents == 3       \* events delivered by one response stream
MaxTokens == 2       \* largest numeric max_tokens argument tried

\* ------------------------------------------------------- python primitives
None == "<None>"

\* bool(v) of an Optional[str]
Truthy(v) == v # None /\ v # ""

\* a or b
PyOr(a, b) == IF Truthy(a) THEN a ELSE b

Lit(s) == <<s>>

UpperCase == <<"A","B","C","D","E","F","G","H","I","J","K","L","M",
               "N","O","P","Q","R","S","T","U","V","W","X","Y","Z">>
LowerCase == <<"a","b","c","d","e","f","g","h","i","j","k","l","m",
               "n","o","p","q","r","s","t","u","v","w","x","y","z">>

\* str.lower()
Lower(s) ==
    [i \in 1..Len(s) |->
        IF \E k \in 1..26 : UpperCase[k] = s[i]
        THEN LowerCase[CHOOSE k \in 1..26 : UpperCase[k] = s[i]]
        ELSE s[i]]

\* pat in s   (substring test on str)
Contains(pat, s) ==
    \E i \in 1..(Len(s) - Len(pat) + 1) : SubSeq(s, i, i + Len(pat) - 1) = pat

\* the substrings the two except-blocks look for
GuardrailIntervened ==
    <<"G","u","a","r","d","r","a","i","l","I","n","t","e","r","v","e","n","e","d">>
guardrail == <<"g","u","a","r","d","r","a","i","l">>
ValidationException ==
    <<"V","a","l","i","d","a","t","i","o","n","E","x","c","e","p","t","i","o","n">>

\* ------------------------------------------------------------------- JSON
JNull == [t |-> "null"]
JStr(s) == [t |-> "str", s |-> s]
JList(q) == [t |-> "list", q |-> q]
JObj(f) == [t |-> "obj", f |-> f]
EmptyObj == JObj(<<>>)

\* outcome of evaluating an expression that may raise
Ok(v) == [ok |-> TRUE, v |-> v]
Exc(cls, msg) == [cls |-> cls, msg |-> msg]
Raised(e) == [ok |-> FALSE, e |-> e]

\* o.get(k, d)
PyGet(o, k, d) ==
    CASE o.t = "obj" -> Ok(IF k \in DOMAIN o.f THEN o.f[k] ELSE d)
      [] o.t = "list" ->
            Raised(Exc("AttributeError", Lit("'list' object has no attribute 'get'")))
      [] o.t = "str" ->
            Raised(Exc("AttributeError", Lit("'str' object has no attribute 'get'")))
      [] o.t = "null" ->
            Raised(Exc("AttributeError", Lit("'NoneType' object has no attribute 'get'")))

\* o[0]
PyIndex0(o) ==
    CASE o.t = "list" ->
            IF Len(o.q) > 0 THEN Ok(o.q[1])
            ELSE Raised(Exc("IndexError", Lit("list index out of range")))
      [] o.t = "obj" ->
            Raised(Exc("KeyError", Lit("0")))
      [] o.t = "null" ->
            Raised(Exc("TypeError", Lit("'NoneType' object is not subscriptable")))

\* k in o
PyIn(k, o) ==
    CASE o.t = "obj" -> Ok(k \in DOMAIN o.f)
      [] o.t = "list" -> Ok(\E i \in 1..Len(o.q) : o.q[i] = JStr(k))
      [] o.t = "null" ->
            Raised(Exc("TypeError", Lit("argument of type 'NoneType' is not iterable")))

\* len(o)
PyLen(o) ==
    CASE o.t = "list" -> Ok(Len(o.q))
      [] o.t = "obj" -> Ok(Cardinality(DOMAIN o.f))
      [] o.t = "null" ->
            Raised(Exc("TypeError", Lit("object of type 'NoneType' has no len()")))

\* o.get(k) with the default None, where o is known to be a dict
GetOrNull(o, k) == IF k \in DOMAIN o.f THEN o.f[k] ELSE JNull

\* except Exception: the classes it catches
ExceptionClasses ==
    {"ClientError", "EndpointConnectionError", "EventStreamError", "JSONDecodeError",
     "IndexError", "KeyError", "TypeError", "AttributeError"}

Catches_ClientErrorOnly(cls) == cls = "ClientError"

Catches(cls) == cls \in ExceptionClasses

\* json.loads of the bytes the service returned
JsonLoads(b) ==
    IF b.valid THEN Ok(b.json)
    ELSE Raised(Exc("JSONDecodeError", Lit("Expecting value: line 1 column 1 (char 0)")))
Bytes(j) == [valid |-> TRUE, json |-> j]
BadBytes == [valid |-> FALSE, json |-> JNull]

\* ------------------------------------------------------------ environment
\* os.getenv(k, d)
Getenv(env, k, d) == IF k \in DOMAIN env THEN env[k] ELSE d

\* process environments tried (after load_dotenv)
Environments ==
    { <<>>,
      ("GUARDRAIL_ID" :> "gr-env"),
      ("GUARDRAIL_ID" :> "") @@ ("GUARDRAIL_VERSION" :> ""),
      ("GUARDRAIL_VERSION" :> "2") @@ ("INFERENCE_PROFILE_ID" :> "ip-1") }

GuardrailIdArgs == {None, "", "gr-1"}
GuardrailVersionArgs == {None, "", "DRAFT"}

\* ----------------------------------------------------------- constructors
\* BedrockGuardrailClient.__init__
BedrockGuardrailClient(region, guardrail_id, guardrail_version, inference_profile_id, env) ==
    [ cls |-> "BedrockGuardrailClient",
      region |-> region,
      guardrail_id |-> PyOr(guardrail_id, Getenv(env, "GUARDRAIL_ID", None)),
      guardrail_version |-> PyOr(guardrail_version, Getenv(env, "GUARDRAIL_VERSION", "1")),
      inference_profile_id |->
          PyOr(inference_profile_id, Getenv(env, "INFERENCE_PROFILE_ID", None)),
      model_id |-> "anthropic.claude-sonnet-4-20250514-v1:0" ]

\* MistralBedrockClient.__init__
MistralBedrockClient(region, guardrail_id, guardrail_version, model_id) ==
    [ cls |-> "MistralBedrockClient",
      region |-> region,
      guardrail_id |-> guardrail_id,
      guardrail_version |-> guardrail_version,
      model_id |-> model_id ]

Clients ==
    { BedrockGuardrailClient("eu-west-1", g, v, None, env) :
          g \in GuardrailIdArgs, v \in GuardrailVersionArgs, env \in Environments }
    \cup
    { MistralBedrockClient("eu-west-1", g, v, "mistral.mistral-large-3-675b-instruct") :
          g \in GuardrailIdArgs, v \in GuardrailVersionArgs }

\* ------------------------------------------------------- request building
\* max_tokens arguments: a Python value with its runtime type
PyVal(type, val) == [type |-> type, val |-> val]
MaxTokensArgs ==
    { PyVal("int", n) : n \in -1..MaxTokens }
    \cup { PyVal("bool", 1), PyVal("float", 1), PyVal("str", 0) }

\* isinstance(v, int): bool is a subclass of int
IsInstanceInt(v) == v.type \in {"int", "bool"}

Prompts == {"What is the capital of France?"}

\* request_body of BedrockGuardrailClient.invoke_model / invoke_model_streaming
BedrockRequestBody(prompt, max_tokens, temperature, top_p) ==
    [ anthropic_version |-> "bedrock-2023-05-31",
      max_tokens |-> max_tokens,
      temperature |-> temperature,
      top_p |-> top_p,
      messages |-> << [role |-> "user", content |-> prompt] >> ]

\* request_body of MistralBedrockClient.invoke_model
MistralRequestBody(prompt, max_tokens, temperature, top_p) ==
    [ prompt |-> prompt,
      max_tokens |-> max_tokens,
      temperature |-> temperature,
      top_p |-> top_p ]

\* api_params of BedrockGuardrailClient (both methods build it the same way)
BedrockApiParams(self, request_body) ==
    LET api_params ==
            [ modelId |-> IF Truthy(self.inference_profile_id)
                          THEN self.inference_profile_id ELSE self.model_id,
              body |-> request_body,
              contentType |-> "application/json",
              accept |-> "application/json" ]
    IN  IF Truthy(self.guardrail_id)
        THEN api_params @@ [ guardrailIdentifier |-> self.guardrail_id,
                             guardrailVersion |-> self.guardrail_version ]
        ELSE api_params

\* api_params of MistralBedrockClient.invoke_model
MistralApiParams(self, request_body) ==
    LET api_params ==
            [ modelId |-> self.model_id,
              body |-> request_body,
              contentType |-> "application/json",
              accept |-> "application/json" ]
        with_id == api_params @@ [ guardrailIdentifier |-> self.guardrail_id ]
    IN  IF Truthy(self.guardrail_id)
        THEN IF Truthy(self.guardrail_version)
             THEN with_id @@ [ guardrailVersion |-> self.guardrail_version ]
             ELSE with_id
        ELSE api_params

MistralRejects_NoTypeCheck(max_tokens) == max_tokens.val <= 0

\* the max_tokens check of MistralBedrockClient.invoke_model
MistralRejects(max_tokens) == ~IsInstanceInt(max_tokens) \/ max_tokens.val <= 0

\* ---------------------------------------------- what the service can answer
Vocabulary ==
    { GuardrailIntervened, guardrail,
      <<"G","u","a","r","d","R","a","i","l">>,
      ValidationException,
      <<"T","h","r","o","t","t","l","i","n","g">>,
      <<"g","u","a","r","d">> }

RECURSIVE MessagesOf(_)
MessagesOf(n) ==
    IF n <= 1 THEN Vocabulary
    ELSE LET shorter == MessagesOf(n - 1)
         IN  shorter \cup { m \o <<" ">> \o w : m \in shorter, w \in Vocabulary }

\* str(e) of the errors the remote call raises
ErrorMessages == MessagesOf(MaxWords)

RemoteErrors ==
    { Exc("ClientError", m) : m \in ErrorMessages }
    \cup { Exc("EndpointConnectionError", Lit("Could not connect to the endpoint URL")) }

Field(k, values) == { <<>> } \cup { k :> v : v \in values }

TextBlocks ==
    { JNull, JList(<<>>), JList(<< EmptyObj >>),
      JList(<< JObj("text" :> JStr("Paris")) >>) }

AnthropicBodies ==
    { JObj(c @@ r) : c \in Field("content", TextBlocks),
                     r \in Field("stop_reason", {JStr("end_turn")}) }

MistralBodies ==
    { JObj(o @@ c @@ r) : o \in Field("outputs", TextBlocks \ {JNull}),
                          c \in Field("completion", {JStr("Lyon")}),
                          r \in Field("stop_reason", {JStr("stop")}) }
    \cup { JObj(("outputs" :> JNull) @@ r) : r \in Field("stop_reason", {JStr("stop")}) }

\* outcomes of bedrock_runtime.invoke_model(...) followed by response["body"].read()
InvokeOutcomes(bodies) ==
    { Raised(e) : e \in RemoteErrors }
    \cup { Ok(Bytes(b)) : b \in bodies \cup {JNull, JList(<<>>)} }
    \cup { Ok(BadBytes) }

\* ------------------------------------------------- BedrockGuardrailClient
\* the try-block of invoke_model, after the remote call has answered
BedrockTry(self, remote) ==
    IF ~remote.ok THEN remote ELSE
    LET parsed == JsonLoads(remote.v) IN
    IF ~parsed.ok THEN parsed ELSE
    LET response_body == parsed.v
        content == PyGet(response_body, "content", JList(<< EmptyObj >>)) IN
    IF ~content.ok THEN content ELSE
    LET first == PyIndex0(content.v) IN
    IF ~first.ok THEN first ELSE
    LET text_response == PyGet(first.v, "text", JStr("")) IN
    IF ~text_response.ok THEN text_response ELSE
    Ok([ success |-> TRUE,
         response |-> text_response.v,
         stop_reason |-> GetOrNull(response_body, "stop_reason"),
         usage |-> GetOrNull(response_body, "usage"),
         model_id |-> GetOrNull(response_body, "model"),
         guardrail_applied |-> self.guardrail_id # None ])

\* the test of the except-blocks of invoke_model and invoke_model_streaming
BedrockIsGuardrail(error_message) ==
    \/ Contains(GuardrailIntervened, error_message)
    \/ Contains(guardrail, Lower(error_message))

BedrockExcept_WithText(e) ==
    [ success |-> FALSE,
      error |-> IF BedrockIsGuardrail(e.msg) THEN "Guardrail intervention" ELSE "API error",
      message |-> e.msg,
      response |-> JStr("") ]

BedrockExcept_MessageDropped(e) ==
    IF BedrockIsGuardrail(e.msg)
    THEN [ success |-> FALSE,
           error |-> "Guardrail intervention",
           message |-> Lit("The request was blocked by guardrails. Please rephrase your question."),
           details |-> e.msg ]
    ELSE [ success |-> FALSE,
           error |-> "API error",
           message |-> Lit("The request failed.") ]

\* the except-block of invoke_model
BedrockExcept(e) ==
    LET error_message == e.msg
    IN  IF BedrockIsGuardrail(error_message)
        THEN [ success |-> FALSE,
               error |-> "Guardrail intervention",
               message |-> Lit("The request was blocked by guardrails. Please rephrase your question."),
               details |-> error_message ]
        ELSE [ success |-> FALSE,
               error |-> "API error",
               message |-> error_message ]

BedrockInvoke_RetryOnFailure(self, prompt, max_tokens, temperature, top_p, remote) ==
    LET request_body == BedrockRequestBody(prompt, max_tokens, temperature, top_p)
        api_params == BedrockApiParams(self, request_body)
        body == BedrockTry(self, remote)
    IN  [ sent |-> IF remote.ok THEN << api_params >> ELSE << api_params, api_params >>,
          result |-> IF body.ok THEN << body.v >>
                     ELSE IF Catches(body.e.cls) THEN << BedrockExcept(body.e) >>
                     ELSE << >>,
          escaped |-> IF ~body.ok /\ ~Catches(body.e.cls) THEN << body.e >> ELSE << >> ]

\* one call of invoke_model: what was sent, what came back to the caller
BedrockInvoke(self, prompt, max_tokens, temperature, top_p, remote) ==
    LET request_body == BedrockRequestBody(prompt, max_tokens, temperature, top_p)
        api_params == BedrockApiParams(self, request_body)
        body == BedrockTry(self, remote)
    IN  [ sent |-> << api_params >>,
          result |-> IF body.ok THEN << body.v >>
                     ELSE IF Catches(body.e.cls) THEN << BedrockExcept(body.e) >>
                     ELSE << >>,
          escaped |-> IF ~body.ok /\ ~Catches(body.e.cls) THEN << body.e >> ELSE << >> ]

\* --------------------------------------------------- MistralBedrockClient
MistralTry_CompletionFirst(self, remote) ==
    IF ~remote.ok THEN remote ELSE
    LET parsed == JsonLoads(remote.v) IN
    IF ~parsed.ok THEN parsed ELSE
    LET response_body == parsed.v
        has_completion == PyIn("completion", response_body) IN
    IF ~has_completion.ok THEN has_completion ELSE
    LET has_outputs == PyIn("outputs", response_body)
        n == IF ~has_completion.v /\ has_outputs.v
             THEN PyLen(response_body.f["outputs"]) ELSE Ok(0) IN
    IF ~n.ok THEN n ELSE
    LET text_response ==
            IF has_completion.v
            THEN PyGet(response_body, "completion", JStr(""))
            ELSE IF has_outputs.v /\ n.v > 0
                 THEN LET first == PyIndex0(response_body.f["outputs"])
                      IN  IF first.ok THEN PyGet(first.v, "text", JStr("")) ELSE first
                 ELSE Ok(JStr(""))
        stop_reason == PyGet(response_body, "stop_reason", JNull) IN
    IF ~text_response.ok THEN text_response ELSE
    IF ~stop_reason.ok THEN stop_reason ELSE
    Ok([ success |-> TRUE,
         response |-> text_response.v,
         stop_reason |-> stop_reason.v,
         model_id |-> self.model_id,
         guardrail_applied |-> self.guardrail_id # None,
         raw_response |-> response_body ])

\* the try-block of invoke_model, after the remote call has answered
MistralTry(self, remote) ==
    IF ~remote.ok THEN remote ELSE
    LET parsed == JsonLoads(remote.v) IN
    IF ~parsed.ok THEN parsed ELSE
    LET response_body == parsed.v
        has_outputs == PyIn("outputs", response_body) IN
    IF ~has_outputs.ok THEN has_outputs ELSE
    LET n == IF has_outputs.v THEN PyLen(response_body.f["outputs"]) ELSE Ok(0) IN
    IF ~n.ok THEN n ELSE
    LET has_completion == PyIn("completion", response_body)
        text_response ==
            IF has_outputs.v /\ n.v > 0
            THEN LET first == PyIndex0(response_body.f["outputs"])
                 IN  IF first.ok THEN PyGet(first.v, "text", JStr("")) ELSE first
            ELSE IF has_completion.v
                 THEN PyGet(response_body, "completion", JStr(""))
                 ELSE Ok(JStr(""))
        stop_reason == PyGet(response_body, "stop_reason", JNull) IN
    IF ~text_response.ok THEN text_response ELSE
    IF ~stop_reason.ok THEN stop_reason ELSE
    Ok([ success |-> TRUE,
         response |-> text_response.v,
         stop_reason |-> stop_reason.v,
         model_id |-> self.model_id,
         guardrail_applied |-> self.guardrail_id # None,
         raw_response |-> response_body ])

\* the test of the except-block of invoke_model
MistralIsGuardrail(error_message) ==
    \/ Contains(GuardrailIntervened, error_message)
    \/ Contains(ValidationException, error_message)

\* the except-block of invoke_model
MistralExcept(e) ==
    LET error_message == e.msg
    IN  IF MistralIsGuardrail(error_message)
        THEN [ success |-> FALSE,
               error |-> "Guardrail intervention or validation failed",
               message |-> Lit("The request was blocked by guardrails or validation failed."),
               details |-> error_message ]
        ELSE [ success |-> FALSE,
               error |-> "API error",
               message |-> Lit("AWS CLI command failed: ") \o error_message,
               details |-> error_message ]

\* one call of invoke_model: what was sent, what came back to the caller
MistralInvoke(self, prompt, max_tokens, temperature, top_p, remote) ==
    IF MistralRejects(max_tokens)
    THEN [ sent |-> << >>,
           result |-> << [ success |-> FALSE,
                           error |-> "max_tokens must be a positive integer" ] >>,
           escaped |-> << >> ]
    ELSE
    LET request_body == MistralRequestBody(prompt, max_tokens, temperature, top_p)
        api_params == MistralApiParams(self, request_body)
        body == MistralTry(self, remote)
    IN  [ sent |-> << api_params >>,
          result |-> IF body.ok THEN << body.v >>
                     ELSE IF Catches(body.e.cls) THEN << MistralExcept(body.e) >>
                     ELSE << >>,
          escaped |-> IF ~body.ok /\ ~Catches(body.e.cls) THEN << body.e >> ELSE << >> ]

\* --------------------------------------------------------- streaming relay
\* parsed chunks of the response stream
ContentDelta(delta) ==
    JObj(("type" :> JStr("content_block_delta")) @@ ("delta" :> delta))
TextDelta(text) == JObj(("type" :> JStr("text_delta")) @@ ("text" :> JStr(text)))

Chunks ==
    { ContentDelta(TextDelta("Hel")),
      ContentDelta(TextDelta("lo ")),
      ContentDelta(JObj("type" :> JStr("text_delta"))),
      ContentDelta(JObj(("type" :> JStr("input_json_delta"))
                        @@ ("partial_json" :> JStr("{")))),
      JObj("type" :> JStr("content_block_delta")),
      JObj("type" :> JStr("message_stop")) }

\* what iterating response["body"] can deliver next: an event, or an error
StreamEvents ==
    { Ok([chunk |-> [bytes |-> Bytes(c)]]) : c \in Chunks }
    \cup { Ok([chunk |-> [bytes |-> BadBytes]]),
           Ok([chunk |-> [bytes |-> Bytes(JNull)]]),
           Ok([internalServerException |-> [message |-> "x"]]) }
    \cup { Raised(Exc("EventStreamError", m)) : m \in Vocabulary }

\* a string the generator yields, tagged with the yield statement it comes from
Fragment(text) == [delta |-> text]
Marker(text) == [marker |-> text]
IsMarker(y) == "marker" \in DOMAIN y

RelayEvent_AnyDelta(next) ==
    IF ~next.ok THEN next ELSE
    LET event == next.v IN
    IF "chunk" \notin DOMAIN event THEN Raised(Exc("KeyError", Lit("'chunk'"))) ELSE
    LET parsed == JsonLoads(event.chunk.bytes) IN
    IF ~parsed.ok THEN parsed ELSE
    LET chunk == parsed.v
        type == PyGet(chunk, "type", JNull) IN
    IF ~type.ok THEN type ELSE
    IF type.v # JStr("content_block_delta") THEN Ok(<< >>) ELSE
    LET delta == PyGet(chunk, "delta", EmptyObj)
        text == PyGet(delta.v, "text", JStr(""))
    IN  IF ~text.ok THEN text ELSE Ok(<< Fragment(text.v) >>)

\* the body of the for-loop of invoke_model_streaming for one event:
\* the strings it yields, or the error it raises
RelayEvent(next) ==
    IF ~next.ok THEN next ELSE
    LET event == next.v IN
    IF "chunk" \notin DOMAIN event THEN Raised(Exc("KeyError", Lit("'chunk'"))) ELSE
    LET parsed == JsonLoads(event.chunk.bytes) IN
    IF ~parsed.ok THEN parsed ELSE
    LET chunk == parsed.v
        type == PyGet(chunk, "type", JNull) IN
    IF ~type.ok THEN type ELSE
    IF type.v # JStr("content_block_delta") THEN Ok(<< >>) ELSE
    LET delta == PyGet(chunk, "delta", EmptyObj)
        dtype == PyGet(delta.v, "type", JNull) IN
    IF ~dtype.ok THEN dtype ELSE
    IF dtype.v # JStr("text_delta") THEN Ok(<< >>) ELSE
    LET text == PyGet(delta.v, "text", JStr(""))
    IN  Ok(<< Fragment(text.v) >>)

StreamExcept_Silent(e) == << >>

\* the except-block of invoke_model_streaming: the strings it yields
StreamExcept(e) ==
    LET error_message == e.msg
    IN  IF BedrockIsGuardrail(error_message)
        THEN << Marker(Lit("\n[ERROR: Request blocked by guardrails. Please rephrase your question.]\n")) >>
        ELSE << Marker(Lit("\n[ERROR: ") \o error_message \o Lit("]\n")) >>

\* ------------------------------------------------------------------ state
VARIABLES
    self,       \* the client object, as its constructor left it
    call,       \* the method being run, or run last, with its max_tokens
    remote,     \* what the remote operation answered in this call
    sent,       \* the api_params of each remote invocation of this call
    result,     \* << the dictionary invoke_model returned >>, or << >>
    escaped,    \* << the exception that left the method >>, or << >>
    relay,      \* "Idle", or the state of the generator of invoke_model_streaming
    incoming,   \* what iterating the response stream has delivered so far
    produced    \* what the generator has yielded so far

vars == << self, call, remote, sent, result, escaped, relay, incoming, produced >>

NoCall == [op |-> "none", max_tokens |-> PyVal("NoneType", 0)]

Init ==
    /\ self \in Clients
    /\ call = NoCall
    /\ remote = << >>
    /\ sent = << >>
    /\ result = << >>
    /\ escaped = << >>
    /\ relay = "Idle"
    /\ incoming = << >>
    /\ produced = << >>

\* BedrockGuardrailClient.invoke_model
BedrockInvokeModel ==
    /\ self.cls = "BedrockGuardrailClient"
    /\ call = NoCall
    /\ \E prompt \in Prompts, max_tokens \in MaxTokensArgs,
          answer \in InvokeOutcomes(AnthropicBodies) :
          LET out == BedrockInvoke(self, prompt, max_tokens, "0.7", "0.9", answer)
          IN  /\ call' = [op |-> "invoke_model", max_tokens |-> max_tokens]
              /\ remote' = << answer >>
              /\ sent' = out.sent
              /\ result' = out.result
              /\ escaped' = out.escaped
    /\ UNCHANGED << self, relay, incoming, produced >>

\* MistralBedrockClient.invoke_model
MistralInvokeModel ==
    /\ self.cls = "MistralBedrockClient"
    /\ call = NoCall
    /\ \E prompt \in Prompts, max_tokens \in MaxTokensArgs,
          answer \in InvokeOutcomes(MistralBodies) :
          LET out == MistralInvoke(self, prompt, max_tokens, "0.7", "0.9", answer)
          IN  /\ call' = [op |-> "invoke_model", max_tokens |-> max_tokens]
              /\ remote' = IF out.sent = << >> THEN << >> ELSE << answer >>
              /\ sent' = out.sent
              /\ result' = out.result
              /\ escaped' = out.escaped
    /\ UNCHANGED << self, relay, incoming, produced >>

\* invoke_model_streaming up to the for-loop: build the request, open the stream
StreamOpen ==
    /\ self.cls = "BedrockGuardrailClient"
    /\ call = NoCall
    /\ \E prompt \in Prompts,
          answer \in {Ok("stream")} \cup { Raised(e) : e \in RemoteErrors } :
          LET max_tokens == PyVal("int", 2000)
              request_body == BedrockRequestBody(prompt, max_tokens, "0.7", "0.9")
              api_params == BedrockApiParams(self, request_body)
              caught == ~answer.ok /\ Catches(answer.e.cls)
          IN  /\ call' = [op |-> "invoke_model_streaming", max_tokens |-> max_tokens]
              /\ remote' = << answer >>
              /\ sent' = << api_params >>
              /\ relay' = IF answer.ok THEN "Streaming" ELSE "Errored"
              /\ produced' = IF caught THEN StreamExcept(answer.e) ELSE << >>
              /\ escaped' = IF ~answer.ok /\ ~caught THEN << answer.e >> ELSE << >>
    /\ UNCHANGED << self, result, incoming >>

\* one turn of the for-loop: the stream delivers an event or raises
StreamNext ==
    /\ relay = "Streaming"
    /\ Len(incoming) < MaxEvents
    /\ \E next \in StreamEvents :
          LET out == RelayEvent(next)
              caught == ~out.ok /\ Catches(out.e.cls)
          IN  /\ incoming' = Append(incoming, next)
              /\ relay' = IF out.ok THEN "Streaming" ELSE "Errored"
              /\ produced' = IF out.ok THEN produced \o out.v
                             ELSE IF caught THEN produced \o StreamExcept(out.e)
                             ELSE produced
              /\ escaped' = IF ~out.ok /\ ~caught THEN << out.e >> ELSE << >>
    /\ UNCHANGED << self, call, remote, sent, result >>

\* the stream is exhausted: the for-loop and the generator end
StreamExhausted ==
    /\ relay = "Streaming"
    /\ relay' = "Done"
    /\ UNCHANGED << self, call, remote, sent, result, escaped, incoming, produced >>

\* the caller is done with the call (main() goes on to its next example):
\* a finished call leaves nothing behind but the client object
NextExample ==
    /\ call # NoCall
    /\ relay # "Streaming"
    /\ call' = NoCall
    /\ remote' = << >>
    /\ sent' = << >>
    /\ result' = << >>
    /\ escaped' = << >>
    /\ relay' = "Idle"
    /\ incoming' = << >>
    /\ produced' = << >>
    /\ UNCHANGED self

Next ==
    \/ NextExample
    \/ BedrockInvokeModel
    \/ MistralInvokeModel
    \/ StreamOpen
    \/ StreamNext
    \/ StreamExhausted

Spec == Init /\ [][Next]_vars

\* ================================================================= claims
IsInvoke(cls) == call.op = "invoke_model" /\ self.cls = cls
Returned == Len(result) = 1
RemoteRaised == Len(remote) = 1 /\ ~remote[1].ok
GuardrailKeys == {"guardrailIdentifier", "guardrailVersion"}

\* C1: whenever a guardrail identifier is configured on the client, the
\* api_params passed to the remote call hold both guardrailIdentifier and
\* guardrailVersion; whenever none is configured they hold neither key.
C1_GuardrailPairOrNothing ==
    \A i \in 1..Len(sent) :
        IF Truthy(self.guardrail_id)
        THEN GuardrailKeys \subseteq DOMAIN sent[i]
        ELSE GuardrailKeys \cap DOMAIN sent[i] = {}

\* C2: a call of MistralBedrockClient.invoke_model whose max_tokens is not an
\* integer or is <= 0 returns a failure result and never invokes the remote
\* operation; the remote operation is invoked only with a positive integer.
C2_BadMaxTokensNeverSent ==
    IsInvoke("MistralBedrockClient") =>
        LET bad == call.max_tokens.type \notin {"int", "bool"} \/ call.max_tokens.val <= 0
        IN  /\ bad => Returned /\ result[1].success = FALSE /\ sent = << >>
            /\ sent # << >> => ~bad

C2_Witness ==
    /\ IsInvoke("MistralBedrockClient")
    /\ call.max_tokens = PyVal("str", 0)
    /\ Returned /\ result[1].success = FALSE
    /\ sent = << >>

C3_StreamMarkedBySubstring ==
    (call.op = "invoke_model_streaming" /\ RemoteRaised) =>
        LET msg == remote[1].e.msg
            mentions == Contains(GuardrailIntervened, msg) \/ Contains(guardrail, Lower(msg))
            blocked == Marker(Lit("\n[ERROR: Request blocked by guardrails. Please rephrase your question.]\n"))
        IN  mentions <=> produced = << blocked >>

\* C3: in both clients, a remote error whose message contains "guardrail" in
\* any letter case, or "GuardrailIntervened", is classified as a guardrail
\* intervention; every other remote error is classified as "API error".
C3_ClassifiedBySubstring ==
    C3_StreamMarkedBySubstring /\
    (call.op = "invoke_model" /\ RemoteRaised /\ Returned) =>
        LET msg == remote[1].e.msg
            mentions == Contains(GuardrailIntervened, msg) \/ Contains(guardrail, Lower(msg))
        IN  IF mentions
            THEN result[1].error \in {"Guardrail intervention",
                                      "Guardrail intervention or validation failed"}
            ELSE result[1].error = "API error"

\* the text fragments of the content-delta events of a delivered sequence
IsTextDelta(next) ==
    /\ next.ok
    /\ "chunk" \in DOMAIN next.v
    /\ next.v.chunk.bytes.valid
    /\ LET c == next.v.chunk.bytes.json
       IN  /\ c.t = "obj"
           /\ "type" \in DOMAIN c.f /\ c.f["type"] = JStr("content_block_delta")
           /\ "delta" \in DOMAIN c.f /\ c.f["delta"].t = "obj"
           /\ "type" \in DOMAIN c.f["delta"].f
           /\ c.f["delta"].f["type"] = JStr("text_delta")

TextOf(next) ==
    LET d == next.v.chunk.bytes.json.f["delta"].f
    IN  IF "text" \in DOMAIN d THEN d["text"] ELSE JStr("")

RECURSIVE TextFragments(_)
TextFragments(events) ==
    IF events = << >> THEN << >>
    ELSE IF IsTextDelta(Head(events))
         THEN << Fragment(TextOf(Head(events))) >> \o TextFragments(Tail(events))
         ELSE TextFragments(Tail(events))

\* C4: when the remote call or the iteration raises, the generator has
\* produced exactly the text fragments that arrived before the fault, in
\* order, then exactly one error marker; Errored is terminal and nothing is
\* produced after the marker.
C4_FragmentsThenOneMarker ==
    /\ [](relay = "Errored" =>
            /\ Len(produced) = Len(TextFragments(incoming)) + 1
            /\ SubSeq(produced, 1, Len(produced) - 1) = TextFragments(incoming)
            /\ IsMarker(produced[Len(produced)]))
    /\ [][relay = "Errored" => (produced' = produced /\ relay' = "Errored") \/ call' = NoCall]_vars

C4_Witness ==
    /\ relay = "Errored"
    /\ Len(incoming) = 3 /\ ~incoming[3].ok
    /\ Len(produced) = 3
    /\ produced[1] = Fragment(JStr("Hel")) /\ produced[2] = Fragment(JStr("lo "))

\* C5: when the event sequence is exhausted without an error, the generator
\* has produced exactly the text fragments of the content-delta events, in
\* arrival order, one per such event, nothing for any other event, and no
\* marker at the end.
C5_OnlyTextDeltasRelayed ==
    relay \in {"Streaming", "Done"} =>
        /\ produced = TextFragments(incoming)
        /\ \A i \in 1..Len(produced) : ~IsMarker(produced[i])
        /\ Len(produced) = Cardinality({ i \in 1..Len(incoming) : IsTextDelta(incoming[i]) })

C5_Witness ==
    /\ relay = "Done"
    /\ Len(incoming) = 3
    /\ produced = << Fragment(JStr("Hel")), Fragment(JStr("lo ")) >>

\* C6: no remote fault escapes: whatever the remote operation raises, or
\* reading and parsing its response raises, invoke_model returns a result
\* with success = false, and invoke_model_streaming lets no error reach the
\* consumer of the produced sequence.
C6_NoFaultEscapes ==
    /\ escaped = << >>
    /\ (call.op = "invoke_model" /\ Len(remote) = 1 /\ (~remote[1].ok \/ ~remote[1].v.valid))
           => Returned /\ result[1].success = FALSE
    /\ relay = "Errored" => produced # << >> /\ IsMarker(produced[Len(produced)])

C6_Witness ==
    /\ IsInvoke("BedrockGuardrailClient")
    /\ remote = << Ok(BadBytes) >>
    /\ Returned /\ result[1].success = FALSE
    /\ escaped = << >>

\* the call got a response whose body parsed to a JSON object
ObjectBody(cls) ==
    /\ IsInvoke(cls)
    /\ Len(remote) = 1 /\ remote[1].ok /\ remote[1].v.valid
    /\ remote[1].v.json.t = "obj"
Body == remote[1].v.json.f
Succeeded == Returned /\ result[1].success = TRUE

\* the value at path [0].text of a JSON value, where there is one
HasText(v) ==
    /\ v.t = "list" /\ Len(v.q) > 0
    /\ v.q[1].t = "obj" /\ "text" \in DOMAIN v.q[1].f
TextAt(v) == IF HasText(v) THEN v.q[1].f["text"] ELSE JStr("")
NonEmptyList(v) == v.t = "list" /\ Len(v.q) > 0
EmptyList(v) == v.t = "list" /\ Len(v.q) = 0

C8_MissingTextIsEmptySuccess ==
    /\ (ObjectBody("BedrockGuardrailClient")
          /\ ~("content" \in DOMAIN Body /\ HasText(Body["content"])))
          => Succeeded /\ result[1].response = JStr("")
    /\ (ObjectBody("MistralBedrockClient")
          /\ ~("outputs" \in DOMAIN Body /\ HasText(Body["outputs"]))
          /\ "completion" \notin DOMAIN Body)
          => Succeeded /\ result[1].response = JStr("")

\* C9: every result invoke_model returns, on any path, carries "response" and
\* no "error" when success is true, and "error" and no "response" when
\* success is false.
C9_TextXorErrorKind ==
    \A i \in 1..Len(result) :
        IF result[i].success
        THEN "response" \in DOMAIN result[i] /\ "error" \notin DOMAIN result[i]
        ELSE "error" \in DOMAIN result[i] /\ "response" \notin DOMAIN result[i]

C9_Witness ==
    /\ IsInvoke("BedrockGuardrailClient")
    /\ RemoteRaised /\ Returned
    /\ result[1].success = FALSE
    /\ result[1].error = "Guardrail intervention"

\* C10 (as stated): every failure result produced from a remote error, in
\* both clients and for both classifications, holds the raw error text in
\* "details" besides the error kind.
C10_DetailsAlwaysKept ==
    (call.op = "invoke_model" /\ RemoteRaised /\ Returned) =>
        /\ "error" \in DOMAIN result[1]
        /\ "details" \in DOMAIN result[1]
        /\ result[1].details = remote[1].e.msg

\* C10 (amended): every failure result produced from a remote error holds the
\* error kind and the raw error text: in "details", except that an "API
\* error" result of BedrockGuardrailClient has no "details" and holds the raw
\* text in "message".
C10_RawTextKept ==
    (call.op = "invoke_model" /\ RemoteRaised /\ Returned) =>
        /\ "error" \in DOMAIN result[1]
        /\ IF self.cls = "BedrockGuardrailClient" /\ result[1].error = "API error"
           THEN "details" \notin DOMAIN result[1] /\ result[1].message = remote[1].e.msg
           ELSE "details" \in DOMAIN result[1] /\ result[1].details = remote[1].e.msg

C10_Witness ==
    /\ IsInvoke("BedrockGuardrailClient")
    /\ RemoteRaised /\ Returned
    /\ result[1].error = "API error"
    /\ result[1].message = remote[1].e.msg

\* C11: nothing is retried: each call of invoke_model (either client) and
\* each run of invoke_model_streaming invokes the remote operation at most
\* once, whether it succeeds, fails with a guardrail error or fails with any
\* other error; after a failure no second invocation is made in that call.
C11_AtMostOneRemoteCall ==
    /\ [](/\ Len(sent) <= 1
          /\ Len(remote) = 1 => Len(sent) = 1
          /\ relay = "Errored" => Len(sent) = 1)
    /\ [][(call # NoCall /\ call' # NoCall) => sent' = sent]_vars

C11_Witness ==
    /\ IsInvoke("BedrockGuardrailClient")
    /\ RemoteRaised /\ Returned
    /\ result[1].success = FALSE /\ result[1].error = "API error"
    /\ Len(sent) = 1

\* C12: in every success result of invoke_model, in either client,
\* guardrail_applied is true if and only if guardrailIdentifier was included
\* in the api_params sent to the remote call for that request, for every
\* configured guardrail_id, the empty string included.
C12_AppliedIffIdentifierSent ==
    (call.op = "invoke_model" /\ Succeeded) =>
        /\ Len(sent) = 1
        /\ result[1].guardrail_applied <=> "guardrailIdentifier" \in DOMAIN sent[1]
====
